---- MODULE Spec2Model ----
(***************************************************************************)
(* Model of the golexer scanner (package golexer): the package-level       *)
(* lookup tables, one Lexer value, and the operations NewLexer,            *)
(* NewLexerWithConfig, NextToken and TokenizeAll.  Strings are Go strings: *)
(* sequences of bytes (0..255); runes are code points (integers).          *)
(***************************************************************************)
EXTENDS Integers, Sequences, FiniteSets, TLC

VARIABLES keywords, operators, singleCharTokens, lexer, ctor, configFile, trace,
          returned, panicked, previous

vars ==
  <<keywords, operators, singleCharTokens, lexer, ctor, configFile, trace, returned, panicked,
    previous>>

(***************************************************************************)
(* Rune literals.  Printable lists the ASCII characters 0x20..0x7E in code *)
(* point order, so Rune("a") is the value of the Go rune literal 'a'; the  *)
(* grave accent U+0060 is written "BACKTICK".                              *)
(***************************************************************************)
Printable ==
  <<
     " ", "!", "\"", "#", "$", "%", "&", "'", "(", ")", "*", "+", ",", "-", ".", "/",
     "0", "1", "2", "3", "4", "5", "6", "7", "8", "9", ":", ";", "<", "=", ">", "?",
     "@", "A", "B", "C", "D", "E", "F", "G", "H", "I", "J", "K", "L", "M", "N", "O",
     "P", "Q", "R", "S", "T", "U", "V", "W", "X", "Y", "Z", "[", "\\", "]", "^", "_",
     "BACKTICK", "a", "b", "c", "d", "e", "f", "g", "h", "i", "j", "k", "l", "m", "n", "o",
     "p", "q", "r", "s", "t", "u", "v", "w", "x", "y", "z", "{", "|", "}", "~"
  >>

RuneOf ==
  [c \in {Printable[i] : i \in 1..95} \cup {"\t", "\n", "\r"} |->
     IF c = "\t" THEN 9
     ELSE IF c = "\n" THEN 10
     ELSE IF c = "\r" THEN 13
     ELSE 31 + (CHOOSE i \in 1..95 : Printable[i] = c)]

Rune(c) == RuneOf[c]

\* The Go string literal whose characters are the elements of t.
Str(t) == [i \in 1..Len(t) |-> RuneOf[t[i]]]

RuneError == 65533

(***************************************************************************)
(* unicode/utf8 on the one- and two-byte forms; every other byte sequence  *)
(* the model feeds it is malformed and decodes to (RuneError, 1).          *)
(***************************************************************************)
DecodeRuneInString(s, off) ==
  LET b0 == s[off + 1] IN
  IF b0 < 128 THEN [r |-> b0, size |-> 1]
  ELSE IF b0 >= 194 /\ b0 <= 223 /\ off + 2 <= Len(s)
          /\ s[off + 2] >= 128 /\ s[off + 2] <= 191
       THEN [r |-> (b0 % 32) * 64 + (s[off + 2] % 64), size |-> 2]
  ELSE [r |-> RuneError, size |-> 1]

\* string(r) / strings.Builder.WriteRune(r): the UTF-8 encoding of r.
EncodeRune(r) ==
  IF r < 128 THEN <<r>>
  ELSE IF r < 2048 THEN <<192 + (r \div 64), 128 + (r % 64)>>
  ELSE <<224 + (r \div 4096), 128 + ((r \div 64) % 64), 128 + (r % 64)>>

(***************************************************************************)
(* Character classes (unicode.IsLetter / unicode.IsDigit on U+0000..U+00FF *)
(* and on RuneError, the only runes the decoder above can produce from the *)
(* byte alphabets used here).                                              *)
(***************************************************************************)
UnicodeIsLetter(ch) ==
  \/ ch >= 65 /\ ch <= 90
  \/ ch >= 97 /\ ch <= 122
  \/ ch \in {170, 181, 186}
  \/ ch >= 192 /\ ch <= 214
  \/ ch >= 216 /\ ch <= 246
  \/ ch >= 248 /\ ch <= 255

isLetter(ch) == UnicodeIsLetter(ch) \/ ch = Rune("_")

isDigit(ch) == ch >= Rune("0") /\ ch <= Rune("9")

isHexDigit(ch) ==
  \/ isDigit(ch)
  \/ ch >= Rune("a") /\ ch <= Rune("f")
  \/ ch >= Rune("A") /\ ch <= Rune("F")

isBinaryDigit(ch) == ch = Rune("0") \/ ch = Rune("1")

isOctalDigit(ch) == ch >= Rune("0") /\ ch <= Rune("7")

(***************************************************************************)
(* Package-level tables as initialised by the var declarations.            *)
(***************************************************************************)
DefaultKeywords ==
  (Str(<<"l","e","t">>) :> "LET")
  @@ (Str(<<"c","o","n","s","t">>) :> "CONST")
  @@ (Str(<<"f","n">>) :> "FN")
  @@ (Str(<<"i","f">>) :> "IF")
  @@ (Str(<<"e","l","s","e">>) :> "ELSE")
  @@ (Str(<<"w","h","i","l","e">>) :> "WHILE")
  @@ (Str(<<"f","o","r">>) :> "FOR")
  @@ (Str(<<"r","e","t","u","r","n">>) :> "RETURN")
  @@ (Str(<<"b","r","e","a","k">>) :> "BREAK")
  @@ (Str(<<"c","o","n","t","i","n","u","e">>) :> "CONTINUE")
  @@ (Str(<<"t","r","u","e">>) :> "TRUE")
  @@ (Str(<<"f","a","l","s","e">>) :> "FALSE")
  @@ (Str(<<"n","u","l","l">>) :> "NULL")
  @@ (Str(<<"i","n","t">>) :> "TYPE_INT")
  @@ (Str(<<"f","l","o","a","t">>) :> "TYPE_FLOAT")
  @@ (Str(<<"s","t","r","i","n","g">>) :> "TYPE_STRING")
  @@ (Str(<<"b","o","o","l">>) :> "TYPE_BOOL")
  @@ (Str(<<"c","h","a","r">>) :> "TYPE_CHAR")

Operator(single, singleType, compound, compoundType) ==
  [Single |-> single, SingleType |-> singleType,
   Compound |-> compound, CompoundType |-> compoundType]

DefaultOperators ==
  << Operator(Str(<<"=">>), "=", Str(<<"=","=">>), "=="),
     Operator(Str(<<"+">>), "+", Str(<<"+","=">>), "+="),
     Operator(Str(<<"-">>), "-", Str(<<"-","=">>), "-="),
     Operator(Str(<<"*">>), "*", Str(<<"*","=">>), "*="),
     Operator(Str(<<"/">>), "/", Str(<<"/","=">>), "/="),
     Operator(Str(<<"%">>), "%", Str(<<"%","=">>), "%="),
     Operator(Str(<<"!">>), "!", Str(<<"!","=">>), "!="),
     Operator(Str(<<"<">>), "<", Str(<<"<","=">>), "<="),
     Operator(Str(<<">">>), ">", Str(<<">","=">>), ">="),
     Operator(Str(<<"&">>), "", Str(<<"&","&">>), "&&"),
     Operator(Str(<<"|">>), "", Str(<<"|","|">>), "||") >>

DefaultSingleCharTokens ==
  (Rune("(") :> "(") @@ (Rune(")") :> ")")
  @@ (Rune("{") :> "{") @@ (Rune("}") :> "}")
  @@ (Rune("[") :> "[") @@ (Rune("]") :> "]")
  @@ (Rune(",") :> ",") @@ (Rune(";") :> ";")
  @@ (Rune(":") :> ":") @@ (Rune(".") :> ".")

LookupIdent(ident) ==
  IF ident \in DOMAIN keywords THEN keywords[ident] ELSE "IDENT"

(***************************************************************************)
(* Values.                                                                 *)
(***************************************************************************)
Token(type, literal, line, column) ==
  [Type |-> type, Literal |-> literal, Line |-> line, Column |-> column]

\* fmt.Sprintf(format, args...), kept as the call: format and arguments.
Sprintf(format, args) == [format |-> format, args |-> args]

\* Go's s[a:b] on a string.
Slice(s, a, b) == SubSeq(s, a + 1, b)

(***************************************************************************)
(* The cursor.                                                             *)
(***************************************************************************)
GetErrors(l) == l.errors

\* HasErrors testing for more than one error.
HasErrors_moreThanOne(l) == Len(l.errors) > 1

HasErrors(l) == Len(l.errors) > 0

\* addError that drops the error.
addError_dropped(l, message) == l

addError(l, message) ==
  [l EXCEPT !.errors =
     Append(@, [Message |-> message, Line |-> l.line, Column |-> l.column])]

\* readChar resetting the column at a line feed without counting the line.
readChar_noLineIncrement(l) ==
  LET advance(d) == [l EXCEPT !.ch = d.r,
                              !.position = l.readPosition,
                              !.readPosition = l.readPosition + d.size]
      track(l1) == IF l1.ch = Rune("\n")
                   THEN [l1 EXCEPT !.column = 1]
                   ELSE [l1 EXCEPT !.column = @ + 1]
  IN track(IF l.readPosition >= Len(l.input)
           THEN [l EXCEPT !.ch = 0]
           ELSE advance(DecodeRuneInString(l.input, l.readPosition)))

readChar(l) ==
  LET advance(d) == [l EXCEPT !.ch = d.r,
                              !.position = l.readPosition,
                              !.readPosition = l.readPosition + d.size]
      track(l1) == IF l1.ch = Rune("\n")
                   THEN [l1 EXCEPT !.line = @ + 1, !.column = 1]
                   ELSE [l1 EXCEPT !.column = @ + 1]
  IN track(IF l.readPosition >= Len(l.input)
           THEN [l EXCEPT !.ch = 0]
           ELSE advance(DecodeRuneInString(l.input, l.readPosition)))

\* peekChar decoding at the current offset instead of the lookahead offset.
peekChar_atPosition(l) ==
  IF l.readPosition >= Len(l.input) THEN 0
  ELSE DecodeRuneInString(l.input, l.position).r

peekChar(l) ==
  IF l.readPosition >= Len(l.input) THEN 0
  ELSE DecodeRuneInString(l.input, l.readPosition).r

\* The conditions of the scanning loops `for <cond>(l.ch) { l.readChar() }`.
InClass(class, ch) ==
  CASE class = "whitespace" -> ch \in {Rune(" "), Rune("\t"), Rune("\n"), Rune("\r")}
    [] class = "letterOrDigit" -> isLetter(ch) \/ isDigit(ch)
    [] class = "digit" -> isDigit(ch)
    [] class = "hex" -> isHexDigit(ch)
    [] class = "binary" -> isBinaryDigit(ch)
    [] class = "octal" -> isOctalDigit(ch)
    [] class = "lineComment" -> ch # Rune("\n") /\ ch # 0

RECURSIVE readWhile(_, _)
readWhile(l, class) ==
  IF InClass(class, l.ch) THEN readWhile(readChar(l), class) ELSE l

skipWhitespace(l) == readWhile(l, "whitespace")

NewLexer(input) ==
  readChar([input |-> input, position |-> 0, readPosition |-> 0, ch |-> 0,
            line |-> 1, column |-> 0, errors |-> <<>>])

(***************************************************************************)
(* Identifiers and numbers.  Each reader returns the Lexer it leaves       *)
(* behind (l) and the string it returns (s).  A local operator such as     *)
(* body(l1) names the Lexer after the statements that precede it.          *)
(***************************************************************************)
\* return l.input[start:l.position]
lexeme(l, start) == [l |-> l, s |-> Slice(l.input, start, l.position)]

readIdentifier(l) ==
  IF ~isLetter(l.ch)
  THEN [l |-> addError(l, Sprintf("identifier must start with a letter or underscore", <<>>)),
        s |-> <<>>]
  ELSE lexeme(readWhile(l, "letterOrDigit"), l.position)

\* The trailing-character check of the number readers.
trailing(l, cond, message) ==
  IF cond THEN readWhile(addError(l, Sprintf(message, <<>>)), "letterOrDigit") ELSE l

readHexNumber(l) ==
  LET tail(l2) == trailing(l2, isLetter(l2.ch) /\ l2.ch # 0,
                           "invalid hexadecimal number: contains non-hex characters")
      body(l1) ==
        IF ~isHexDigit(l1.ch)
        THEN lexeme(addError(l1, Sprintf("invalid hexadecimal number: must contain at least one hex digit after 0x", <<>>)),
                    l.position)
        ELSE lexeme(tail(readWhile(l1, "hex")), l.position)
  IN body(readChar(readChar(l)))

readBinaryNumber(l) ==
  LET tail(l2) == trailing(l2, (isDigit(l2.ch) /\ ~isBinaryDigit(l2.ch)) \/ isLetter(l2.ch),
                           "invalid binary number: contains non-binary characters")
      body(l1) ==
        IF ~isBinaryDigit(l1.ch)
        THEN lexeme(addError(l1, Sprintf("invalid binary number: must contain at least one binary digit after 0b", <<>>)),
                    l.position)
        ELSE lexeme(tail(readWhile(l1, "binary")), l.position)
  IN body(readChar(readChar(l)))

readOctalNumber(l) ==
  LET tail(l2) == trailing(l2, (isDigit(l2.ch) /\ ~isOctalDigit(l2.ch)) \/ isLetter(l2.ch),
                           "invalid octal number: contains non-octal characters")
      body(l1) ==
        IF ~isOctalDigit(l1.ch)
        THEN lexeme(addError(l1, Sprintf("invalid octal number: must contain at least one octal digit after 0o", <<>>)),
                    l.position)
        ELSE lexeme(tail(readWhile(l1, "octal")), l.position)
  IN body(readChar(readChar(l)))

readTraditionalOctal(l) ==
  LET tail(l1) == trailing(l1, (isDigit(l1.ch) /\ ~isOctalDigit(l1.ch)) \/ isLetter(l1.ch),
                           "invalid octal number: contains non-octal characters")
  IN lexeme(tail(readWhile(l, "octal")), l.position)

readNumber(l) ==
  LET \* Check for invalid trailing characters
      tail(l3) == trailing(l3, isLetter(l3.ch) /\ l3.ch # 0,
                           "invalid number: numbers cannot be followed by letters")
      \* Scientific notation
      digits(b) == IF ~isDigit(b.ch)
                   THEN addError(b, Sprintf("invalid scientific notation: exponent must contain digits", <<>>))
                   ELSE readWhile(b, "digit")
      sign(a) == digits(IF a.ch \in {Rune("+"), Rune("-")} THEN readChar(a) ELSE a)
      exponent(l2) == IF l2.ch \in {Rune("e"), Rune("E")} THEN sign(readChar(l2)) ELSE l2
      \* Float with decimal point
      fraction(l1) == IF l1.ch = Rune(".") /\ isDigit(peekChar(l1))
                      THEN readWhile(readChar(l1), "digit")
                      ELSE l1
      prefixed(next) ==
        IF l.ch = Rune("0") /\ next \in {Rune("x"), Rune("X")} THEN "hex"
        ELSE IF l.ch = Rune("0") /\ next \in {Rune("b"), Rune("B")} THEN "binary"
        ELSE IF l.ch = Rune("0") /\ next \in {Rune("o"), Rune("O")} THEN "octal"
        ELSE IF l.ch = Rune("0") /\ isOctalDigit(next) THEN "traditional"
        ELSE "decimal"
      dispatch(kind) ==
        CASE kind = "hex" -> readHexNumber(l)
          [] kind = "binary" -> readBinaryNumber(l)
          [] kind = "octal" -> readOctalNumber(l)
          [] kind = "traditional" -> readTraditionalOctal(l)
          [] OTHER -> lexeme(tail(exponent(fraction(readWhile(l, "digit")))), l.position)
  IN dispatch(prefixed(peekChar(l)))

(***************************************************************************)
(* Escapes, strings and character literals.                                *)
(***************************************************************************)
hexValue(d) ==
  IF d >= Rune("0") /\ d <= Rune("9") THEN d - Rune("0")
  ELSE IF d >= Rune("a") /\ d <= Rune("f") THEN d - Rune("a") + 10
  ELSE IF d >= Rune("A") /\ d <= Rune("F") THEN d - Rune("A") + 10
  ELSE 0

\* Returns the Lexer left behind (l) and the decoded rune (r).
readEscapeSequence(l) ==
  LET second(first, l3) ==
        IF ~isHexDigit(l3.ch)
        THEN [l |-> addError(l3, Sprintf("invalid hex escape sequence: expected two hex digits after \\x", <<>>)),
              r |-> 0]
        ELSE [l |-> l3, r |-> hexValue(first) * 16 + hexValue(l3.ch)]
      hex(l2) ==
        IF ~isHexDigit(l2.ch)
        THEN [l |-> addError(l2, Sprintf("invalid hex escape sequence: expected hex digit after \\x", <<>>)),
              r |-> 0]
        ELSE second(l2.ch, readChar(l2))
      body(l1) ==
        IF l1.ch = 0
        THEN [l |-> addError(l1, Sprintf("unterminated escape sequence", <<>>)), r |-> 0]
        ELSE CASE l1.ch = Rune("a") -> [l |-> l1, r |-> 7]
               [] l1.ch = Rune("b") -> [l |-> l1, r |-> 8]
               [] l1.ch = Rune("f") -> [l |-> l1, r |-> 12]
               [] l1.ch = Rune("n") -> [l |-> l1, r |-> 10]
               [] l1.ch = Rune("r") -> [l |-> l1, r |-> 13]
               [] l1.ch = Rune("t") -> [l |-> l1, r |-> 9]
               [] l1.ch = Rune("v") -> [l |-> l1, r |-> 11]
               [] l1.ch = Rune("\\") -> [l |-> l1, r |-> Rune("\\")]
               [] l1.ch = Rune("'") -> [l |-> l1, r |-> Rune("'")]
               [] l1.ch = Rune("\"") -> [l |-> l1, r |-> Rune("\"")]
               [] l1.ch = Rune("0") -> [l |-> l1, r |-> 0]
               [] l1.ch = Rune("x") -> hex(readChar(l1))
               [] OTHER ->
                    [l |-> addError(l1, Sprintf("unknown escape sequence '\\%c'", <<l1.ch>>)),
                     r |-> l1.ch]
  IN body(readChar(l))

readCharLiteral(l) ==
  LET close(l2, result) ==
        [l |-> IF l2.ch # Rune("'")
               THEN addError(l2, Sprintf("character literal must be closed with single quote", <<>>))
               ELSE readChar(l2),
         s |-> result]
      escaped(e) == close(readChar(e.l), IF e.r # 0 THEN EncodeRune(e.r) ELSE <<>>)
      body(l1) ==
        IF l1.ch = 0
        THEN [l |-> addError(l1, Sprintf("unterminated character literal", <<>>)), s |-> <<>>]
        ELSE IF l1.ch = Rune("\n")
        THEN [l |-> addError(l1, Sprintf("character literal cannot contain newline", <<>>)), s |-> <<>>]
        ELSE IF l1.ch = Rune("\\") THEN escaped(readEscapeSequence(l1))
        ELSE close(readChar(l1), EncodeRune(l1.ch))
  IN body(readChar(l))

RECURSIVE readStringLoop(_, _)
readStringLoop(l, result) ==
  LET escaped(e) == readStringLoop(e.l, IF e.r # 0 THEN result \o EncodeRune(e.r) ELSE result)
      body(l1) ==
        IF l1.ch = 0
        THEN [l |-> addError(l1, Sprintf("unterminated string literal", <<>>)), s |-> result]
        ELSE IF l1.ch = Rune("\"") THEN [l |-> l1, s |-> result]
        ELSE IF l1.ch = Rune("\\") THEN escaped(readEscapeSequence(l1))
        ELSE readStringLoop(l1, result \o EncodeRune(l1.ch))
  IN body(readChar(l))

readString(l) == readStringLoop(l, <<>>)

RECURSIVE readBacktickLoop(_, _)
readBacktickLoop(l, result) ==
  LET body(l1) ==
        IF l1.ch = 0
        THEN [l |-> addError(l1, Sprintf("unterminated backtick string literal", <<>>)), s |-> result]
        ELSE IF l1.ch = Rune("BACKTICK") THEN [l |-> l1, s |-> result]
        ELSE readBacktickLoop(l1, result \o EncodeRune(l1.ch))
  IN body(readChar(l))

readBacktickString(l) == readBacktickLoop(l, <<>>)

(***************************************************************************)
(* Comments.                                                               *)
(***************************************************************************)
skipLineComment(l) == readWhile(l, "lineComment")

RECURSIVE skipBlockLoop(_)
skipBlockLoop(l) ==
  IF l.ch = 0 THEN addError(l, Sprintf("unterminated block comment", <<>>))
  ELSE IF l.ch = Rune("*") /\ peekChar(l) = Rune("/") THEN readChar(readChar(l))
  ELSE skipBlockLoop(readChar(l))

skipBlockComment(l) == skipBlockLoop(readChar(l))

(***************************************************************************)
(* Operators.  tryOperator returns the Lexer left behind, the token, the   *)
(* found flag, and panic = TRUE when the Go code indexes a string out of   *)
(* range (a run-time panic).                                               *)
(***************************************************************************)
NoToken == Token("", <<>>, 0, 0)

RECURSIVE tryOperatorFrom(_, _, _, _)
tryOperatorFrom(l, i, line, column) ==
  LET panic == [l |-> l, tok |-> NoToken, found |-> FALSE, panic |-> TRUE]
      compound(op, l1) ==
        [l |-> l1,
         tok |-> Token(op.CompoundType, EncodeRune(l.ch) \o EncodeRune(l1.ch), line, column),
         found |-> TRUE, panic |-> FALSE]
      try(op) ==
        IF Len(op.Single) = 0 THEN panic
        ELSE IF l.ch # op.Single[1] THEN tryOperatorFrom(l, i + 1, line, column)
        ELSE IF l.ch \in {Rune("&"), Rune("|")} /\ op.Compound # <<>>
        THEN IF Len(op.Compound) < 2 THEN panic
             ELSE IF peekChar(l) = op.Compound[2] THEN compound(op, readChar(l))
             ELSE [l |-> addError(l, Sprintf("unexpected character '%c' - did you mean '%s'?",
                                             <<l.ch, op.Compound>>)),
                   tok |-> Token("ILLEGAL", EncodeRune(l.ch), line, column),
                   found |-> TRUE, panic |-> FALSE]
        ELSE IF op.Compound # <<>> /\ Len(op.Compound) > 1 /\ peekChar(l) = op.Compound[2]
        THEN compound(op, readChar(l))
        ELSE IF op.SingleType # ""
        THEN [l |-> l, tok |-> Token(op.SingleType, op.Single, line, column),
              found |-> TRUE, panic |-> FALSE]
        ELSE tryOperatorFrom(l, i + 1, line, column)
  IN IF i > Len(operators)
     THEN [l |-> l, tok |-> NoToken, found |-> FALSE, panic |-> FALSE]
     ELSE try(operators[i])

tryOperator(l, line, column) == tryOperatorFrom(l, 1, line, column)

(***************************************************************************)
(* NextToken.  Returns the Lexer left behind (l), the returned Token       *)
(* (tok), the byte offset l.position at the moment line and column are     *)
(* captured for the returned token (start), and panic.                     *)
(***************************************************************************)
Ret(l, tok, start) == [l |-> l, tok |-> tok, start |-> start, panic |-> FALSE]

RECURSIVE NextToken(_)
NextToken(l) ==
  LET ident(l0, r) ==
        IF r.s = <<>>
        THEN Ret(r.l, Token("ILLEGAL", EncodeRune(r.l.ch), l0.line, l0.column), l0.position)
        ELSE Ret(r.l, Token(LookupIdent(r.s), r.s, l0.line, l0.column), l0.position)
      number(l0, r) ==
        Ret(r.l,
                 Token(IF Len(r.l.errors) > Len(l0.errors) THEN "ILLEGAL" ELSE "NUMBER",
                       r.s, l0.line, l0.column),
                 l0.position)
      \* the literal readers; `then` is TRUE where NextToken goes on to l.readChar()
      literal(l0, type, r, then) ==
        Ret(IF then THEN readChar(r.l) ELSE r.l,
                 Token(type, r.s, l0.line, l0.column), l0.position)
      special(l0) ==
        IF l0.ch = Rune("'") THEN literal(l0, "CHAR", readCharLiteral(l0), FALSE)
        ELSE IF l0.ch = Rune("\"") THEN literal(l0, "STRING", readString(l0), TRUE)
        ELSE IF l0.ch = Rune("BACKTICK")
        THEN literal(l0, "BACKTICK_STRING", readBacktickString(l0), TRUE)
        ELSE IF l0.ch = 0
        THEN Ret(readChar(l0), Token("EOF", <<>>, l0.line, l0.column), l0.position)
        ELSE IF l0.ch \in DOMAIN singleCharTokens
        THEN Ret(readChar(l0),
                      Token(singleCharTokens[l0.ch], EncodeRune(l0.ch), l0.line, l0.column),
                      l0.position)
        ELSE Ret(readChar(addError(l0, Sprintf("unexpected character '%c' (Unicode: U+%04X)",
                                                    <<l0.ch, l0.ch>>))),
                      Token("ILLEGAL", EncodeRune(l0.ch), l0.line, l0.column),
                      l0.position)
      operator(l0, o) ==
        IF o.panic THEN [l |-> l0, tok |-> NoToken, start |-> l0.position, panic |-> TRUE]
        ELSE IF o.found THEN Ret(readChar(o.l), o.tok, l0.position)
        ELSE special(l0)
      body(l0) ==
        IF l0.ch = Rune("/") /\ peekChar(l0) = Rune("/") THEN NextToken(skipLineComment(l0))
        ELSE IF l0.ch = Rune("/") /\ peekChar(l0) = Rune("*") THEN NextToken(skipBlockComment(l0))
        ELSE IF isLetter(l0.ch) THEN ident(l0, readIdentifier(l0))
        ELSE IF isDigit(l0.ch) THEN number(l0, readNumber(l0))
        ELSE operator(l0, tryOperator(l0, l0.line, l0.column))
  IN body(skipWhitespace(l))

(***************************************************************************)
(* TokenizeAll.  Besides the returned tokens and errors, calls lists the   *)
(* NextToken calls it made: the returned token, its start offset, and the  *)
(* Lexer before (pre) and after (post) the call.                           *)
(***************************************************************************)
Call(pre, r) == [tok |-> r.tok, start |-> r.start, pre |-> pre, post |-> r.l]

RECURSIVE TokenizeAllLoop(_, _, _)
TokenizeAllLoop(l, tokens, calls) ==
  LET body(r) ==
        IF r.panic
        THEN [l |-> r.l, tokens |-> tokens, errors |-> r.l.errors, calls |-> calls, panic |-> TRUE]
        ELSE IF r.tok.Type = "EOF"
        THEN [l |-> r.l, tokens |-> tokens, errors |-> r.l.errors,
              calls |-> Append(calls, Call(l, r)), panic |-> FALSE]
        ELSE TokenizeAllLoop(r.l, Append(tokens, r.tok), Append(calls, Call(l, r)))
  IN body(NextToken(l))

\* TokenizeAll appending the token before it tests for EOF.
TokenizeAll_appendsEOF(l) ==
  LET add(r) == [r EXCEPT !.tokens = Append(@, Token("EOF", <<>>, r.l.line, r.l.column))]
  IN add(TokenizeAllLoop(l, <<>>, <<>>))

TokenizeAll(l) == TokenizeAllLoop(l, <<>>, <<>>)

(***************************************************************************)
(* Configuration.  A Config holds three maps from string to string; a      *)
(* config file is either unreadable, not valid JSON, or holds a Config.    *)
(***************************************************************************)
Config(kw, ops, punct) ==
  [AdditionalKeywords |-> kw, AdditionalOperators |-> ops, AdditionalPunctuation |-> punct]

EmptyMap == <<>>

\* A file: readable says whether os.ReadFile succeeds, valid whether
\* json.Unmarshal returns no error, and config is what Unmarshal has decoded
\* into the Config when it returns (for a file with a field of the wrong
\* type, the fields it could decode).
File(readable, valid, config) == [readable |-> readable, valid |-> valid, config |-> config]

NoConfig == Config(EmptyMap, EmptyMap, EmptyMap)

\* No file: the value of configFile for a Lexer made by NewLexer.
NoFile == File(FALSE, FALSE, NoConfig)

LoadConfig_errNil(file) ==
  IF ~file.readable THEN [config |-> NoConfig, err |-> TRUE]
  ELSE [config |-> file.config, err |-> FALSE]

LoadConfig(file) ==
  IF ~file.readable THEN [config |-> NoConfig, err |-> TRUE]
  ELSE [config |-> file.config, err |-> ~file.valid]

\* The orders in which `range` may visit the keys of a map.
RangeOrders(m) ==
  {o \in [1..Cardinality(DOMAIN m) -> DOMAIN m] :
     \A i, j \in 1..Cardinality(DOMAIN m) : i # j => o[i] # o[j]}

\* MergeWithDefaults, visiting AdditionalOperators in the order opOrder.
MergeWithDefaults(c, opOrder) ==
  [keywords |->
     [k \in DOMAIN keywords \cup DOMAIN c.AdditionalKeywords |->
        IF k \in DOMAIN c.AdditionalKeywords THEN c.AdditionalKeywords[k] ELSE keywords[k]],
   operators |->
     operators \o [i \in 1..Len(opOrder) |->
                     Operator(opOrder[i], c.AdditionalOperators[opOrder[i]], <<>>, "")],
   singleCharTokens |->
     LET one == {p \in DOMAIN c.AdditionalPunctuation : Len(p) = 1} IN
     [r \in DOMAIN singleCharTokens \cup {p[1] : p \in one} |->
        IF \E p \in one : p[1] = r
        THEN c.AdditionalPunctuation[CHOOSE p \in one : p[1] = r]
        ELSE singleCharTokens[r]]]

(***************************************************************************)
(* Bounds and input sets.                                                  *)
(***************************************************************************)
MaxLen == 4

MaxEOF == 2

MaxExtraOperators == 2

RECURSIVE StringsUpTo(_, _)
StringsUpTo(alphabet, n) ==
  IF n = 0 THEN {<<>>}
  ELSE LET shorter == StringsUpTo(alphabet, n - 1) IN
       shorter \cup {Append(s, b) : s \in {t \in shorter : Len(t) = n - 1}, b \in alphabet}

Alphabet ==
  {0, Rune("i"), Rune("f"), Rune("1"), Rune(" "), Rune("\n"),
   Rune("/"), Rune("*"), Rune("\"")}

FixedInputs ==
  { Str(<<"l","e","t"," ","x"," ","="," ","4","2"," ","+"," ","3",".","1","4",";">>),
    Str(<<"i","f"," ","I","f"," ","i","f","f",";">>),
    Str(<<" "," "," "," ","i","f","/","*","\n","*","/","f"," ">>),
    Str(<<" "," "," "," ","\"","i","\n","\n","\"","f",";">>),
    <<195, 169, Rune("\n"), 195, 169, Rune(";")>> }

Inputs == StringsUpTo(Alphabet, MaxLen) \cup FixedInputs

\* The value of `previous` in the first run of the program.
NoRun == [ran |-> FALSE, file |-> NoFile, input |-> <<>>, tokens |-> <<>>, errors |-> <<>>]

\* The value of `returned` before any TokenizeAll call on the Lexer l.
NotReturned(l) ==
  [called |-> FALSE, before |-> l, after |-> l, tokens |-> <<>>, errors |-> <<>>]

EOFCalls == Cardinality({i \in 1..Len(trace) : trace[i].tok.Type = "EOF"})

(***************************************************************************)
(* Initial states and actions.                                             *)
(***************************************************************************)
InitWith(inputs) ==
  /\ keywords = DefaultKeywords
  /\ operators = DefaultOperators
  /\ singleCharTokens = DefaultSingleCharTokens
  /\ \E input \in inputs : lexer = NewLexer(input)
  /\ ctor = "NewLexer"
  /\ configFile = NoFile
  /\ trace = <<>>
  /\ returned = NotReturned(lexer)
  /\ panicked = FALSE
  /\ previous = NoRun

Init == InitWith(Inputs)

\* One call lexer.NextToken().
DoNextToken ==
  /\ ~panicked
  /\ EOFCalls < MaxEOF
  /\ LET call(r) ==
           /\ lexer' = r.l
           /\ panicked' = r.panic
           /\ trace' = IF r.panic THEN trace ELSE Append(trace, Call(lexer, r))
     IN call(NextToken(lexer))
  /\ UNCHANGED <<keywords, operators, singleCharTokens, ctor, configFile, returned, previous>>

\* One call lexer.TokenizeAll().
DoTokenizeAll ==
  /\ ~panicked
  /\ EOFCalls < MaxEOF
  /\ LET call(r) ==
           /\ lexer' = r.l
           /\ panicked' = r.panic
           /\ trace' = trace \o r.calls
           /\ returned' = IF r.panic THEN returned
                          ELSE [called |-> TRUE, before |-> lexer, after |-> r.l,
                                tokens |-> r.tokens, errors |-> r.errors]
     IN call(TokenizeAll(lexer))
  /\ UNCHANGED <<keywords, operators, singleCharTokens, ctor, configFile, previous>>

Next == DoNextToken \/ DoTokenizeAll

Spec == Init /\ [][Next]_vars

(***************************************************************************)
(* A program that also creates further Lexers, with and without a config   *)
(* file, over the same package-level tables.                               *)
(***************************************************************************)
ReadmeConfig ==
  Config(Str(<<"u","n","l","e","s","s">>) :> "UNLESS",
         (Str(<<"?","?">>) :> "NULL_COALESCE") @@ (Str(<<"?",".">>) :> "SAFE_NAVIGATION"),
         Str(<<"@">>) :> "AT_SYMBOL")

\* {"additionalOperators": {"**": "POWER", "=>": "ARROW"}}
PowerArrowConfig ==
  Config(EmptyMap,
         (Str(<<"*","*">>) :> "POWER") @@ (Str(<<"=",">">>) :> "ARROW"),
         EmptyMap)

\* {"additionalOperators": {"": "EMPTY"}}
EmptyKeyConfig == Config(EmptyMap, <<>> :> "EMPTY", EmptyMap)

\* What Unmarshal leaves of {"additionalKeywords": 5, "additionalPunctuation":
\* {"@": "AT_SYMBOL"}} when it returns its type error.
MistypedConfig == Config(EmptyMap, EmptyMap, Str(<<"@">>) :> "AT_SYMBOL")

ConfigFiles ==
  { File(FALSE, FALSE, NoConfig),
    File(TRUE, FALSE, NoConfig),
    File(TRUE, FALSE, MistypedConfig),
    File(TRUE, TRUE, ReadmeConfig),
    File(TRUE, TRUE, PowerArrowConfig),
    File(TRUE, TRUE, EmptyKeyConfig) }

CfgInputs ==
  { Str(<<"u","n","l","e","s","s"," ","@",";">>),
    Str(<<"a"," ","?","?"," ","b"," ","?","."," ","c",";">>),
    Str(<<"a","*","*","b","=",">","c","\n">>),
    Str(<<"i","f"," ","@"," ","?",";">>),
    Str(<<"@","u","n","l","e","s","s","\n">>) }

InitCfg == InitWith(CfgInputs)

\* lexer = NewLexer(input)
DoNewLexer ==
  /\ ~panicked
  /\ \E input \in CfgInputs : lexer' = NewLexer(input)
  /\ ctor' = "NewLexer"
  /\ configFile' = NoFile
  /\ trace' = <<>>
  /\ returned' = NotReturned(lexer')
  /\ UNCHANGED <<keywords, operators, singleCharTokens, panicked, previous>>

\* lexer = NewLexerWithConfig(input, configFile)
DoNewLexerWithConfig ==
  /\ ~panicked
  /\ \E input \in CfgInputs, file \in ConfigFiles :
       LET merge(merged) ==
             /\ Len(merged.operators) <= Len(DefaultOperators) + MaxExtraOperators
             /\ keywords' = merged.keywords
             /\ operators' = merged.operators
             /\ singleCharTokens' = merged.singleCharTokens
           load(loaded) ==
             IF loaded.err
             THEN UNCHANGED <<keywords, operators, singleCharTokens>>
             ELSE \E opOrder \in RangeOrders(loaded.config.AdditionalOperators) :
                    merge(MergeWithDefaults(loaded.config, opOrder))
       IN /\ load(LoadConfig(file))
          /\ lexer' = NewLexer(input)
          /\ configFile' = file
  /\ ctor' = "NewLexerWithConfig"
  /\ trace' = <<>>
  /\ returned' = NotReturned(lexer')
  /\ UNCHANGED <<panicked, previous>>

NextCfg == DoNewLexer \/ DoNewLexerWithConfig \/ DoNextToken \/ DoTokenizeAll

SpecCfg == InitCfg /\ [][NextCfg]_vars

(***************************************************************************)
(* Two runs of the program.  The tables are package-level variables, so a  *)
(* new run starts from their initialisers.  `previous` keeps what the      *)
(* previous run has seen: the config file it merged, once, into the        *)
(* default tables, the input it scanned, and what TokenizeAll returned.    *)
(***************************************************************************)
\* The tables are the default ones with the Config c merged once.
MergedOnce(c) ==
  /\ \E opOrder \in RangeOrders(c.AdditionalOperators) :
       operators = DefaultOperators \o
                     [i \in 1..Len(opOrder) |->
                        Operator(opOrder[i], c.AdditionalOperators[opOrder[i]], <<>>, "")]
  /\ DOMAIN keywords = DOMAIN DefaultKeywords \cup DOMAIN c.AdditionalKeywords

\* This run has merged its config file once and has called TokenizeAll first.
MergedAndTokenized ==
  /\ ctor = "NewLexerWithConfig"
  /\ configFile.readable /\ configFile.valid
  /\ MergedOnce(configFile.config)
  /\ returned.called
  /\ returned.before = NewLexer(lexer.input)

\* The program ends and is started again.
DoRestart ==
  /\ ~panicked
  /\ ~previous.ran
  /\ MergedAndTokenized
  /\ previous' = [ran |-> TRUE, file |-> configFile, input |-> lexer.input,
                  tokens |-> returned.tokens, errors |-> returned.errors]
  /\ keywords' = DefaultKeywords
  /\ operators' = DefaultOperators
  /\ singleCharTokens' = DefaultSingleCharTokens
  /\ \E input \in CfgInputs : lexer' = NewLexer(input)
  /\ ctor' = "NewLexer"
  /\ configFile' = NoFile
  /\ trace' = <<>>
  /\ returned' = NotReturned(lexer')
  /\ UNCHANGED panicked

NextRuns == DoRestart \/ DoNewLexer \/ DoNewLexerWithConfig \/ DoNextToken \/ DoTokenizeAll

SpecRuns == InitCfg /\ [][NextRuns]_vars

(***************************************************************************)
(* Numbers: the Lexer with the default tables on inputs made of digits,    *)
(* the prefix letters, the exponent letter and a delimiter.                *)
(***************************************************************************)
MaxNumLen == 4

NumAlphabet ==
  {Rune("0"), Rune("1"), Rune("9"), Rune("x"), Rune("b"), Rune("o"), Rune("e"), Rune("."),
   Rune(";")}

NumFixedInputs ==
  { Str(<<"1","2","3","a","b","c">>),
    Str(<<"1","2","3","a","b","c",";">>),
    Str(<<"0","x","G","H","I">>),
    Str(<<"0","o","8","9">>),
    Str(<<"0","b","1","2","3">>),
    Str(<<"0","x","1","G",";">>),
    Str(<<"1","e","5",";">>),
    Str(<<"0","x","1","F",";">>),
    Str(<<"3",".","1","4","e","-","2",";","0","1","7",";","0","b","1","0",";","0","o","7",";">>),
    Str(<<"1",".","5","e","+",";","0","1","8",";","0","b","2",";","0","o",";">>),
    Str(<<"0",".","5",";">>),
    Str(<<"0",";">>),
    Str(<<"4","2",".",";">>),
    Str(<<"0",".","5"," ","0"," ","4","2","."," ","0",".",";","0","0",".","5",";">>) }

NumInputs == StringsUpTo(NumAlphabet, MaxNumLen) \cup NumFixedInputs

InitNum == InitWith(NumInputs)

SpecNum == InitNum /\ [][Next]_vars

(***************************************************************************)
(* Operators: the Lexer with the default tables on inputs made of the      *)
(* operator characters, a letter, a space and a line feed.                 *)
(***************************************************************************)
MaxOpLen == 3

OpAlphabet ==
  {Rune("="), Rune("+"), Rune("-"), Rune("*"), Rune("/"), Rune("%"), Rune("!"),
   Rune("<"), Rune(">"), Rune("&"), Rune("|"), Rune("a"), Rune(" "), Rune("\n")}

\* TestTokenizeBasicOperators
BasicOperators ==
  Str(<<"="," ","+"," ","-"," ","*"," ","/"," ","=","="," ","!","="," ","<"," ",
        "<","="," ",">"," ",">","="," ","+","="," ","-","="," ","*","="," ",
        "/","="," ","&","&"," ","|","|"," ","!">>)

OpFixedInputs ==
  { BasicOperators,
    Str(<<"=","=","=">>),
    Str(<<"a"," ","&"," ","b"," ","|","\n","|","|"," ","&","&","&">>),
    Str(<<"a","%","=","b","\n","\n"," ","&","\n","|">>) }

OpInputs == StringsUpTo(OpAlphabet, MaxOpLen) \cup OpFixedInputs

InitOp == InitWith(OpInputs)

SpecOp == InitOp /\ [][Next]_vars

(***************************************************************************)
(* Strings: the Lexer with the default tables on inputs made of the two    *)
(* quotes, the backslash, escape letters, hex digits and a line feed, and  *)
(* on one string and one character literal for each escape of the table.   *)
(***************************************************************************)
MaxStrLen == 4

StrAlphabet ==
  {Rune("\""), Rune("'"), Rune("\\"), Rune("0"), Rune("x"), Rune("4"), Rune("n"),
   Rune("\n"), Rune(";")}

EscapeLetters ==
  {Rune("a"), Rune("b"), Rune("f"), Rune("n"), Rune("r"), Rune("t"), Rune("v"),
   Rune("\\"), Rune("'"), Rune("\""), Rune("0")}

\* TestTokenizeCharacters
CharactersInput ==
  Str(<<"'","a","'"," ","'","\\","n","'"," ","'","\\","t","'"," ","'","\\","\\","'"," ",
        "'","\\","'","'">>)

StrFixedInputs ==
  {<<q, Rune("\\"), e, q>> : q \in {Rune("\""), Rune("'")}, e \in EscapeLetters}
  \cup {<<q, Rune("\\"), Rune("x"), h[1], h[2], q>> :
          q \in {Rune("\""), Rune("'")},
          h \in {Str(<<"4","1">>), Str(<<"0","A">>), Str(<<"0","0">>), Str(<<"e","9">>),
                 Str(<<"f","F">>), Str(<<"7","f">>)}}
  \cup { Str(<<"\"","u","n","t","e","r","m","i","n","a","t","e","d">>),
         Str(<<"x"," ","\"","n","\\","n","\n","4">>),
         CharactersInput,
         Str(<<"'","a","'",";">>),
         <<Rune("'"), 195, 169, Rune("'"), Rune(";")>>,
         <<Rune("'"), 0, Rune("'"), Rune(";")>>,
         Str(<<"\"","\\","x","\"",";">>),
         Str(<<"\"","\\","x","4","\"",";">>),
         Str(<<"\"","\\","x","\""," ","x","\""," ",";">>) }

StrInputs == StringsUpTo(StrAlphabet, MaxStrLen) \cup StrFixedInputs

InitStr == InitWith(StrInputs)

SpecStr == InitStr /\ [][Next]_vars

(***************************************************************************)
(* Errors: the Lexer with the default tables on inputs made of a digit, a  *)
(* letter, characters that are errors where they stand, the apostrophe, a  *)
(* space and a line feed.                                                  *)
(***************************************************************************)
MaxErrLen == 4

ErrAlphabet ==
  {Rune("1"), Rune("a"), Rune("&"), Rune("#"), Rune("'"), Rune(" "), Rune("\n"), Rune(";")}

ErrFixedInputs ==
  { Str(<<"1","2","3","a","b","c">>),
    Str(<<"a",";","\n"," "," ","1","2","3","a","b","c",";">>),
    Str(<<"a","\n","\n","a"," ","#"," ","|","\n","'","\n","'">>) }

ErrInputs == StringsUpTo(ErrAlphabet, MaxErrLen) \cup ErrFixedInputs

InitErr == InitWith(ErrInputs)

SpecErr == InitErr /\ [][Next]_vars

(***************************************************************************)
(* Comments: the Lexer with the default tables on inputs made of the two   *)
(* comment characters, a letter, a digit, a delimiter, a space and a line  *)
(* feed.                                                                   *)
(***************************************************************************)
MaxComLen == 5

ComAlphabet == {Rune("/"), Rune("*"), Rune("x"), Rune(";"), Rune(" "), Rune("\n")}

\* TestComments
CommentsInput ==
  Str(<<"l","e","t"," ","x"," ","="," ","5",";"," ","/","/"," ","l","i","n","e"," ",
        "c","o","m","m","e","n","t","\n","\t","/","*"," ","b","l","o","c","k"," ",
        "c","o","m","m","e","n","t"," ","*","/"," ","l","e","t"," ","y"," ","="," ",
        "1","0",";">>)

ComFixedInputs ==
  { CommentsInput,
    Str(<<"/","*","/"," ","x">>),
    Str(<<"/","*","/"," ","x",";">>),
    Str(<<"x"," ","/","*"," ","/","*"," ","*","/","x",";","/","/","*","/","\n","x",";">>),
    Str(<<"x",";","\n","/","/","x","\n"," ","/","*","*","/","/","*","x","\n">>) }

ComInputs == StringsUpTo(ComAlphabet, MaxComLen) \cup ComFixedInputs

InitCom == InitWith(ComInputs)

SpecCom == InitCom /\ [][Next]_vars

(***************************************************************************)
(* Vocabulary of the properties.                                           *)
(***************************************************************************)
KeywordKinds == {DefaultKeywords[k] : k \in DOMAIN DefaultKeywords}

\* The calls that returned something other than EOF.
TokenCalls == {i \in 1..Len(trace) : trace[i].tok.Type # "EOF"}

\* The number of bytes of l.input that lie before the current code point,
\* or all of them once the cursor has run off the end of the input.
Consumed(l) ==
  IF l.ch = 0 /\ l.readPosition >= Len(l.input)
     /\ (Len(l.input) = 0 \/ l.input[l.position + 1] # 0)
  THEN Len(l.input)
  ELSE l.position

\* The end offset of the maximal run of letters, digits and underscores
\* that begins at byte offset off of s.
RECURSIVE RunEnd(_, _)
RunEnd(s, off) ==
  IF off >= Len(s) THEN off
  ELSE LET d == DecodeRuneInString(s, off) IN
       IF isLetter(d.r) \/ isDigit(d.r) THEN RunEnd(s, off + d.size) ELSE off

\* The number of code points of s between the byte offsets from and to.
RECURSIVE RuneCount(_, _, _)
RuneCount(s, from, to) ==
  IF from >= to THEN 0
  ELSE 1 + RuneCount(s, from + DecodeRuneInString(s, from).size, to)

LineFeedsBefore(s, off) == Cardinality({i \in 1..off : s[i] = 10})

\* The byte offset just after the last line feed before off (0 if none).
LineStart(s, off) ==
  IF \E i \in 1..off : s[i] = 10
  THEN CHOOSE i \in 1..off : s[i] = 10 /\ \A j \in (i + 1)..off : s[j] # 10
  ELSE 0

TypesAndLiterals(tokens) ==
  [i \in 1..Len(tokens) |-> <<tokens[i].Type, tokens[i].Literal>>]

\* TokenizeAll has been called on a Lexer that had scanned nothing yet.
TokenizedFresh == returned.called /\ returned.before = NewLexer(returned.before.input)

PosLE(a, b) == a.Line < b.Line \/ (a.Line = b.Line /\ a.Column <= b.Column)

(***************************************************************************)
(* C1: the Literal of every identifier, keyword and number token is the    *)
(* input substring from the lexeme's first code point through its last     *)
(* consumed code point, also when the lexeme ends the input.               *)
(***************************************************************************)
C1_LiteralIsLexeme ==
  \A i \in TokenCalls :
    trace[i].tok.Type \in KeywordKinds \cup {"IDENT", "NUMBER"}
      => trace[i].tok.Literal =
           Slice(trace[i].post.input, trace[i].start, Consumed(trace[i].post))

(***************************************************************************)
(* C2: a token that starts at a letter or underscore has the keyword's     *)
(* kind when the maximal letter/digit/underscore run there is exactly a    *)
(* built-in keyword, and kind IDENT otherwise, at any position.            *)
(***************************************************************************)
C2_KeywordOrIdent ==
  \A i \in TokenCalls :
    LET inp == trace[i].post.input
        st == trace[i].start
        run == Slice(inp, st, RunEnd(inp, st))
    IN isLetter(DecodeRuneInString(inp, st).r)
         => trace[i].tok.Type =
              IF run \in DOMAIN DefaultKeywords THEN DefaultKeywords[run] ELSE "IDENT"

(***************************************************************************)
(* C3: TokenizeAll on `let x = 42 + 3.14;` returns exactly the 7 tokens    *)
(* LET(let) IDENT(x) ASSIGN(=) NUMBER(42) PLUS(+) NUMBER(3.14)             *)
(* SEMICOLON(;) and an empty error sequence.                               *)
(***************************************************************************)
LetStatement ==
  Str(<<"l","e","t"," ","x"," ","="," ","4","2"," ","+"," ","3",".","1","4",";">>)

C3_LetStatement ==
  (TokenizedFresh /\ returned.before.input = LetStatement)
    => /\ TypesAndLiterals(returned.tokens) =
            << <<"LET", Str(<<"l","e","t">>)>>,
               <<"IDENT", Str(<<"x">>)>>,
               <<"=", Str(<<"=">>)>>,
               <<"NUMBER", Str(<<"4","2">>)>>,
               <<"+", Str(<<"+">>)>>,
               <<"NUMBER", Str(<<"3",".","1","4">>)>>,
               <<";", Str(<<";">>)>> >>
       /\ returned.errors = <<>>

C3_Witness == TokenizedFresh /\ returned.before.input = LetStatement

(***************************************************************************)
(* C4: every ILLEGAL token returned by NextToken comes with at least one   *)
(* LexError appended during that same call, so a TokenizeAll that returns  *)
(* no errors returns no ILLEGAL token.                                     *)
(***************************************************************************)
C4_IllegalHasError ==
  /\ \A i \in TokenCalls :
       trace[i].tok.Type = "ILLEGAL"
         => Len(trace[i].post.errors) > Len(trace[i].pre.errors)
  /\ (TokenizedFresh /\ returned.errors = <<>>)
       => \A i \in 1..Len(returned.tokens) : returned.tokens[i].Type # "ILLEGAL"

(***************************************************************************)
(* C5: when TokenizeAll returns, the lookahead offset equals the length of *)
(* the input, for every input, also one that contains U+0000.              *)
(***************************************************************************)
C5_TokenizeAllDrains ==
  returned.called => returned.after.readPosition = Len(returned.after.input)

(***************************************************************************)
(* C6: once a NextToken call has returned EOF, every later NextToken call  *)
(* on that Lexer returns EOF.                                              *)
(***************************************************************************)
C6_EOFAbsorbing ==
  \A i, j \in 1..Len(trace) :
    (i < j /\ trace[i].tok.Type = "EOF") => trace[j].tok.Type = "EOF"

(***************************************************************************)
(* C7: after the input is exhausted, successive NextToken calls return     *)
(* identical EOF tokens and change neither the errors nor the Lexer's line *)
(* and column.                                                             *)
(***************************************************************************)
Exhausted(l) ==
  /\ l.readPosition >= Len(l.input)
  /\ l.ch = 0
  /\ \A i \in 1..Len(l.input) : l.input[i] # 0

C7_EOFIdempotent ==
  \A i \in 1..Len(trace) :
    Exhausted(trace[i].pre)
      => /\ trace[i].tok.Type = "EOF"
         /\ trace[i].post.errors = trace[i].pre.errors
         /\ trace[i].post.line = trace[i].pre.line
         /\ trace[i].post.column = trace[i].pre.column
         /\ i < Len(trace) => trace[i + 1].tok = trace[i].tok

(***************************************************************************)
(* C8: every token's Line is 1 + the number of line feeds before its first *)
(* code point and its Column is 1 + the number of code points between the  *)
(* last preceding line feed (or the start of input) and that code point.   *)
(***************************************************************************)
C8_TokenPosition ==
  \A i \in TokenCalls :
    LET inp == trace[i].post.input
        st == trace[i].start
    IN /\ trace[i].tok.Line = 1 + LineFeedsBefore(inp, st)
       /\ trace[i].tok.Column = 1 + RuneCount(inp, LineStart(inp, st), st)

(***************************************************************************)
(* C9: of two consecutive tokens returned before EOF by the same Lexer,    *)
(* the later one's (Line, Column) is not earlier than the former's.        *)
(***************************************************************************)
C9_PositionMonotone ==
  \A i \in 1..(Len(trace) - 1) :
    (i \in TokenCalls /\ i + 1 \in TokenCalls)
      => PosLE(trace[i].tok, trace[i + 1].tok)

\* Two consecutive tokens on different lines, the later in a smaller column.
C9_Witness ==
  \E i \in 1..(Len(trace) - 1) :
    /\ i \in TokenCalls /\ i + 1 \in TokenCalls
    /\ trace[i].tok.Line < trace[i + 1].tok.Line
    /\ trace[i + 1].tok.Column < trace[i].tok.Column

(***************************************************************************)
(* C10: a Lexer created with NewLexer tokenizes with the default tables    *)
(* only, whatever configs earlier NewLexerWithConfig calls have loaded: an *)
(* added keyword is IDENT, an added punctuation character is ILLEGAL with  *)
(* an 'unexpected character' error, and no token has an added kind.        *)
(***************************************************************************)
AddedKinds ==
  {ReadmeConfig.AdditionalKeywords[k] : k \in DOMAIN ReadmeConfig.AdditionalKeywords}
  \cup {ReadmeConfig.AdditionalOperators[k] : k \in DOMAIN ReadmeConfig.AdditionalOperators}
  \cup {ReadmeConfig.AdditionalPunctuation[k] : k \in DOMAIN ReadmeConfig.AdditionalPunctuation}

C10_TablesPerInstance ==
  ctor = "NewLexer"
    => \A i \in TokenCalls :
         LET c == trace[i] IN
         /\ c.tok.Type \notin AddedKinds
         /\ c.tok.Literal \in DOMAIN ReadmeConfig.AdditionalKeywords
              => c.tok.Type = "IDENT"
         /\ c.tok.Literal \in DOMAIN ReadmeConfig.AdditionalPunctuation
              => /\ c.tok.Type = "ILLEGAL"
                 /\ Len(c.post.errors) = Len(c.pre.errors) + 1
                 /\ c.post.errors[Len(c.post.errors)].Message.format
                      = "unexpected character '%c' (Unicode: U+%04X)"

(***************************************************************************)
(* C11: after NewLexerWithConfig has loaded a config whose                 *)
(* additionalOperators maps a text of two or more characters to a kind,    *)
(* every NextToken call that starts at an occurrence of that text returns  *)
(* one token of that kind whose Literal is the text, and consumes all of   *)
(* the text.                                                               *)
(***************************************************************************)
ConfigLoaded == ctor = "NewLexerWithConfig" /\ configFile.readable /\ configFile.valid

\* The text K occurs in s at byte offset off.
OccursAt(s, off, K) == off + Len(K) <= Len(s) /\ SubSeq(s, off + 1, off + Len(K)) = K

C11_ConfiguredOperator ==
  ConfigLoaded
    => \A K \in DOMAIN configFile.config.AdditionalOperators :
         Len(K) > 1
           => \A i \in 1..Len(trace) :
                LET c == trace[i] IN
                OccursAt(c.pre.input, c.start, K)
                  => /\ c.tok.Type = configFile.config.AdditionalOperators[K]
                     /\ c.tok.Literal = K
                     /\ Consumed(c.post) = c.start + Len(K)

(***************************************************************************)
(* C12: when LoadConfig fails (the file cannot be read, or Unmarshal       *)
(* returns an error), NewLexerWithConfig leaves the three tables as they   *)
(* were, and the Lexer it returns is the one NewLexer returns for the same *)
(* input, so that it yields the same tokens and errors.                    *)
(***************************************************************************)
LoadFailed == ctor = "NewLexerWithConfig" /\ (~configFile.readable \/ ~configFile.valid)

C12_FailedLoadKeepsDefaults ==
  /\ [][LoadFailed' => UNCHANGED <<keywords, operators, singleCharTokens>>]_vars
  /\ [](LoadFailed =>
          /\ trace = <<>> /\ ~panicked => lexer = NewLexer(lexer.input)
          /\ trace # <<>> => trace[1].pre = NewLexer(lexer.input)
          /\ returned.called /\ returned.before = trace[1].pre =>
               LET same(r) == returned.tokens = r.tokens /\ returned.errors = r.errors
               IN same(TokenizeAll(NewLexer(lexer.input))))

C12_Witness ==
  /\ LoadFailed
  /\ configFile.config = MistypedConfig
  /\ returned.called
  /\ returned.before = trace[1].pre
  /\ returned.tokens # <<>>

(***************************************************************************)
(* C13: NextToken never panics, whatever the input and whatever Config     *)
(* has been merged, a Config with an empty string as a key included.       *)
(***************************************************************************)
C13_NeverPanics == ~panicked

(***************************************************************************)
(* C14: TokenizeAll on `123abc` returns exactly one token, ILLEGAL with    *)
(* Literal `123abc`, and exactly one error, "invalid number: numbers       *)
(* cannot be followed by letters"; and every call that starts at a run of  *)
(* decimal digits immediately followed by a letter (other than a base      *)
(* prefix after a single 0, or the exponent letter) returns one ILLEGAL    *)
(* token that covers the digits and all the letters and digits after them. *)
(***************************************************************************)
Input123abc == Str(<<"1","2","3","a","b","c">>)

\* The end offset of the run of decimal digits that begins at offset off of s.
RECURSIVE DigitsEnd(_, _)
DigitsEnd(s, off) ==
  IF off < Len(s) /\ isDigit(s[off + 1]) THEN DigitsEnd(s, off + 1) ELSE off

\* At offset off of s a run of decimal digits begins, followed by a letter
\* that is neither a base prefix after a single 0 nor the exponent letter.
DigitsThenLetter(s, off) ==
  LET e == DigitsEnd(s, off) IN
  /\ e > off
  /\ e < Len(s)
  /\ isLetter(DecodeRuneInString(s, e).r)
  /\ s[e + 1] \notin {Rune("e"), Rune("E")}
  /\ ~(e = off + 1 /\ s[off + 1] = Rune("0")
         /\ s[e + 1] \in {Rune("x"), Rune("X"), Rune("b"), Rune("B"), Rune("o"), Rune("O")})

C14_NumberThenLetters ==
  /\ TokenizedFresh /\ returned.before.input = Input123abc
       => /\ TypesAndLiterals(returned.tokens) = << <<"ILLEGAL", Input123abc>> >>
          /\ Len(returned.errors) = 1
          /\ returned.errors[1].Message.format
               = "invalid number: numbers cannot be followed by letters"
  /\ \A i \in TokenCalls :
       LET c == trace[i] IN
       DigitsThenLetter(c.pre.input, c.start)
         => /\ c.tok.Type = "ILLEGAL"
            /\ c.tok.Literal = Slice(c.pre.input, c.start, RunEnd(c.pre.input, c.start))
            /\ Consumed(c.post) = RunEnd(c.pre.input, c.start)

(***************************************************************************)
(* C15: TokenizeAll on `0xGHI` returns an ILLEGAL token and records the    *)
(* error "invalid hexadecimal number: contains non-hex characters"; on     *)
(* `0o89` it records "invalid octal number: contains non-octal             *)
(* characters"; on `0b123` it records "invalid binary number: contains     *)
(* non-binary characters".                                                 *)
(***************************************************************************)
Messages(errors) == {errors[i].Message.format : i \in 1..Len(errors)}

Kinds(tokens) == {tokens[i].Type : i \in 1..Len(tokens)}

C15_PrefixedNumberErrors ==
  TokenizedFresh
    => /\ returned.before.input = Str(<<"0","x","G","H","I">>)
            => /\ "ILLEGAL" \in Kinds(returned.tokens)
               /\ "invalid hexadecimal number: contains non-hex characters"
                    \in Messages(returned.errors)
       /\ returned.before.input = Str(<<"0","o","8","9">>)
            => /\ "ILLEGAL" \in Kinds(returned.tokens)
               /\ "invalid octal number: contains non-octal characters"
                    \in Messages(returned.errors)
       /\ returned.before.input = Str(<<"0","b","1","2","3">>)
            => /\ "ILLEGAL" \in Kinds(returned.tokens)
               /\ "invalid binary number: contains non-binary characters"
                    \in Messages(returned.errors)

(***************************************************************************)
(* C16: a call that starts at a `&` (a `|`) not immediately followed by    *)
(* `&` (`|`) returns one ILLEGAL token whose Literal is that character,    *)
(* consumes exactly that character and appends exactly one error, "did     *)
(* you mean '&&'" ("'||'"); a call that starts at `&&` (`||`) returns AND  *)
(* (OR) with the two-character Literal and appends no error.               *)
(***************************************************************************)
\* The byte of s at offset off, or 0 past the end of s.
ByteAt(s, off) == IF off < Len(s) THEN s[off + 1] ELSE 0

LoneAmpersandOrPipe(c) ==
  /\ ByteAt(c.pre.input, c.start) \in {Rune("&"), Rune("|")}
  /\ ByteAt(c.pre.input, c.start + 1) # ByteAt(c.pre.input, c.start)

Rest(s, off) == SubSeq(s, off + 1, Len(s))

UnterminatedString(c) ==
  /\ ByteAt(c.pre.input, c.start) = Rune("\"")
  /\ \A j \in (c.start + 2)..Len(c.pre.input) : c.pre.input[j] \notin {Rune("\""), 0}

\* The errors a call has appended.
NewErrors(c) == SubSeq(c.post.errors, Len(c.pre.errors) + 1, Len(c.post.errors))

EscapeTable ==
  (Rune("a") :> 7) @@ (Rune("b") :> 8) @@ (Rune("f") :> 12) @@ (Rune("n") :> 10)
  @@ (Rune("r") :> 13) @@ (Rune("t") :> 9) @@ (Rune("v") :> 11)
  @@ (Rune("\\") :> Rune("\\")) @@ (Rune("'") :> Rune("'")) @@ (Rune("\"") :> Rune("\""))
  @@ (Rune("0") :> 0)

HexDigits == Str(<<"0","1","2","3","4","5","6","7","8","9","a","b","c","d","e","f">>)

UpperHexDigits == Str(<<"0","1","2","3","4","5","6","7","8","9","A","B","C","D","E","F">>)

IsHex(d) == \E k \in 1..16 : d \in {HexDigits[k], UpperHexDigits[k]}

HexDigitValue(d) == (CHOOSE k \in 1..16 : d \in {HexDigits[k], UpperHexDigits[k]}) - 1

\* The call c starts at a literal in quotes q that holds one table escape.
OneEscape(c, q) ==
  /\ ByteAt(c.pre.input, c.start) = q
  /\ ByteAt(c.pre.input, c.start + 1) = Rune("\\")
  /\ ByteAt(c.pre.input, c.start + 2) \in DOMAIN EscapeTable
  /\ c.start + 3 < Len(c.pre.input)
  /\ ByteAt(c.pre.input, c.start + 3) = q

\* The call c starts at a literal in quotes q that holds one hex escape.
OneHexEscape(c, q) ==
  /\ ByteAt(c.pre.input, c.start) = q
  /\ ByteAt(c.pre.input, c.start + 1) = Rune("\\")
  /\ ByteAt(c.pre.input, c.start + 2) = Rune("x")
  /\ IsHex(ByteAt(c.pre.input, c.start + 3))
  /\ IsHex(ByteAt(c.pre.input, c.start + 4))
  /\ ByteAt(c.pre.input, c.start + 5) = q

C18_EscapeTable ==
  \A i \in TokenCalls :
    LET c == trace[i] IN
    \A q \in {Rune("\""), Rune("'")} :
      /\ OneEscape(c, q)
           => /\ c.tok.Type = (IF q = Rune("'") THEN "CHAR" ELSE "STRING")
              /\ c.tok.Literal = EncodeRune(EscapeTable[ByteAt(c.pre.input, c.start + 2)])
              /\ c.post.errors = c.pre.errors
      /\ OneHexEscape(c, q)
           => /\ c.tok.Type = (IF q = Rune("'") THEN "CHAR" ELSE "STRING")
              /\ c.tok.Literal
                   = EncodeRune(16 * HexDigitValue(ByteAt(c.pre.input, c.start + 3))
                                + HexDigitValue(ByteAt(c.pre.input, c.start + 4)))
              /\ c.post.errors = c.pre.errors

(***************************************************************************)
(* C19: an error carries the 1-indexed line and column of the offending    *)
(* code point, the one that was current when the error was detected: the   *)
(* character itself for "unexpected character" errors, the first letter    *)
(* after the digits for "numbers cannot be followed by letters" (`123abc`: *)
(* column 4), the line feed for "character literal cannot contain          *)
(* newline"; on every line of the input.                                   *)
(***************************************************************************)
LineOf(s, off) == 1 + LineFeedsBefore(s, off)

ColumnOf(s, off) == 1 + RuneCount(s, LineStart(s, off), off)

\* The messages whose offending code point is the one the call starts at.
AtStartMessages ==
  {"unexpected character '%c' (Unicode: U+%04X)", "unexpected character '%c' - did you mean '%s'?"}

\* The byte offset of the offending code point of the first error that the
\* call c has appended, or -1 where the cases above do not say.
Offending(c) ==
  LET format == NewErrors(c)[1].Message.format IN
  IF format \in AtStartMessages THEN c.start
  ELSE IF format = "invalid number: numbers cannot be followed by letters"
          /\ DigitsThenLetter(c.pre.input, c.start)
  THEN DigitsEnd(c.pre.input, c.start)
  ELSE IF format = "character literal cannot contain newline" THEN c.start + 1
  ELSE -1

C19_ErrorPosition ==
  \A i \in 1..Len(trace) :
    LET c == trace[i] IN
    NewErrors(c) # <<>> /\ Offending(c) >= 0
      => /\ NewErrors(c)[1].Line = LineOf(c.pre.input, Offending(c))
         /\ NewErrors(c)[1].Column = ColumnOf(c.pre.input, Offending(c))

(***************************************************************************)
(* C20: no call starts at `//` or `/*`; a call that starts at one of       *)
(* = + - * / % ! < > followed by `=` returns the compound kind with the    *)
(* two-character Literal and consumes two characters, otherwise the single *)
(* kind with the one-character Literal and consumes one character; no      *)
(* error is appended.  `===` is EQL then ASSIGN, and the operator list of  *)
(* TestTokenizeBasicOperators gives its 18 kinds and literals, then EOF.   *)
(***************************************************************************)
\* The single and the compound kind of each pair (token.go).
PairKinds ==
  (Rune("=") :> <<"=", "==">>) @@ (Rune("+") :> <<"+", "+=">>)
  @@ (Rune("-") :> <<"-", "-=">>) @@ (Rune("*") :> <<"*", "*=">>)
  @@ (Rune("/") :> <<"/", "/=">>) @@ (Rune("%") :> <<"%", "%=">>)
  @@ (Rune("!") :> <<"!", "!=">>) @@ (Rune("<") :> <<"<", "<=">>)
  @@ (Rune(">") :> <<">", ">=">>)

BasicOperatorsExpected ==
  << <<"=", Str(<<"=">>)>>,
     <<"+", Str(<<"+">>)>>,
     <<"-", Str(<<"-">>)>>,
     <<"*", Str(<<"*">>)>>,
     <<"/", Str(<<"/">>)>>,
     <<"==", Str(<<"=","=">>)>>,
     <<"!=", Str(<<"!","=">>)>>,
     <<"<", Str(<<"<">>)>>,
     <<"<=", Str(<<"<","=">>)>>,
     <<">", Str(<<">">>)>>,
     <<">=", Str(<<">","=">>)>>,
     <<"+=", Str(<<"+","=">>)>>,
     <<"-=", Str(<<"-","=">>)>>,
     <<"*=", Str(<<"*","=">>)>>,
     <<"/=", Str(<<"/","=">>)>>,
     <<"&&", Str(<<"&","&">>)>>,
     <<"||", Str(<<"|","|">>)>>,
     <<"!", Str(<<"!">>)>> >>

C20_OperatorPairs ==
  /\ \A i \in TokenCalls :
       LET c == trace[i]
           ch == ByteAt(c.pre.input, c.start)
           next == ByteAt(c.pre.input, c.start + 1)
       IN ch \in DOMAIN PairKinds
            => /\ ~(ch = Rune("/") /\ next \in {Rune("/"), Rune("*")})
               /\ c.post.errors = c.pre.errors
               /\ IF next = Rune("=")
                  THEN /\ c.tok.Type = PairKinds[ch][2]
                       /\ c.tok.Literal = <<ch, next>>
                       /\ Consumed(c.post) = c.start + 2
                  ELSE /\ c.tok.Type = PairKinds[ch][1]
                       /\ c.tok.Literal = <<ch>>
                       /\ Consumed(c.post) = c.start + 1
  /\ TokenizedFresh /\ returned.before.input = Str(<<"=","=","=">>)
       => TypesAndLiterals(returned.tokens)
            = << <<"==", Str(<<"=","=">>)>>, <<"=", Str(<<"=">>)>> >>
  /\ TokenizedFresh /\ returned.before.input = BasicOperators
       => /\ TypesAndLiterals(returned.tokens) = BasicOperatorsExpected
          /\ returned.errors = <<>>
          /\ trace[Len(BasicOperatorsExpected) + 1].tok.Type = "EOF"
          /\ trace[Len(BasicOperatorsExpected) + 1].tok.Literal = <<>>

C20_Witness ==
  /\ TokenizedFresh
  /\ returned.before.input = BasicOperators
  /\ Len(returned.tokens) = Len(BasicOperatorsExpected)

(***************************************************************************)
(* C21: a `//` comment runs up to, not including, the next line feed or    *)
(* the end of the input; a block comment runs from `/*` through the first  *)
(* `*/` after the opener; TokenizeAll returns the same kinds, literals and *)
(* error messages for an input as for the input with each such comment     *)
(* replaced by a space.                                                    *)
(***************************************************************************)
\* The least offset k >= off at which `*/` occurs in s, or -1.
RECURSIVE FindClose(_, _)
FindClose(s, off) ==
  IF off + 2 > Len(s) THEN -1
  ELSE IF s[off + 1] = Rune("*") /\ s[off + 2] = Rune("/") THEN off
  ELSE FindClose(s, off + 1)

\* The offset of the next line feed of s at or after off, or Len(s).
RECURSIVE LineEnd(_, _)
LineEnd(s, off) ==
  IF off >= Len(s) \/ s[off + 1] = Rune("\n") THEN off ELSE LineEnd(s, off + 1)

\* s from offset off on, each well-formed comment replaced by a space.
RECURSIVE StripComments(_, _)
StripComments(s, off) ==
  LET block(close) ==
        IF close < 0 THEN Rest(s, off)
        ELSE <<Rune(" ")>> \o StripComments(s, close + 2)
  IN IF off >= Len(s) THEN <<>>
     ELSE IF ByteAt(s, off) = Rune("/") /\ ByteAt(s, off + 1) = Rune("/")
     THEN <<Rune(" ")>> \o StripComments(s, LineEnd(s, off))
     ELSE IF ByteAt(s, off) = Rune("/") /\ ByteAt(s, off + 1) = Rune("*")
     THEN block(FindClose(s, off + 2))
     ELSE <<s[off + 1]>> \o StripComments(s, off + 1)

C21_CommentsAreSpaces ==
  TokenizedFresh
    => LET same(r) ==
             /\ TypesAndLiterals(returned.tokens) = TypesAndLiterals(r.tokens)
             /\ [j \in 1..Len(returned.errors) |-> returned.errors[j].Message]
                  = [j \in 1..Len(r.errors) |-> r.errors[j].Message]
       IN same(TokenizeAll(NewLexer(StripComments(returned.before.input, 0))))

(***************************************************************************)
(* C22: a call that starts at an apostrophe followed by one raw code point *)
(* other than apostrophe, backslash and line feed, or by one of the        *)
(* escapes \n \t \r \\ \' \", and then by an apostrophe, returns a CHAR   *)
(* token whose Literal is that one code point, appends no error and leaves *)
(* the cursor right after the closing apostrophe; `'a';` gives CHAR a and  *)
(* then SEMICOLON.                                                         *)
(***************************************************************************)
CharEscapes ==
  {Rune("n"), Rune("t"), Rune("r"), Rune("\\"), Rune("'"), Rune("\"")}

\* The call c starts at a character literal holding the raw code point d.
RawCharLiteral(c, d) ==
  /\ ByteAt(c.pre.input, c.start) = Rune("'")
  /\ c.start + 1 < Len(c.pre.input)
  /\ d.r \notin {Rune("'"), Rune("\\"), Rune("\n"), RuneError}
  /\ ByteAt(c.pre.input, c.start + 1 + d.size) = Rune("'")

EscapedCharLiteral(c) ==
  /\ OneEscape(c, Rune("'"))
  /\ ByteAt(c.pre.input, c.start + 2) \in CharEscapes

C22_CharLiteral ==
  /\ \A i \in TokenCalls :
       LET c == trace[i]
           raw(d) ==
             RawCharLiteral(c, d)
               => /\ c.tok.Type = "CHAR"
                  /\ c.tok.Literal = EncodeRune(d.r)
                  /\ c.post.errors = c.pre.errors
                  /\ Consumed(c.post) = c.start + d.size + 2
       IN /\ ByteAt(c.pre.input, c.start) = Rune("'") /\ c.start + 1 < Len(c.pre.input)
               => raw(DecodeRuneInString(c.pre.input, c.start + 1))
          /\ EscapedCharLiteral(c)
               => /\ c.tok.Type = "CHAR"
                  /\ c.tok.Literal = EncodeRune(EscapeTable[ByteAt(c.pre.input, c.start + 2)])
                  /\ c.post.errors = c.pre.errors
                  /\ Consumed(c.post) = c.start + 4
  /\ TokenizedFresh /\ returned.before.input = Str(<<"'","a","'",";">>)
       => /\ TypesAndLiterals(returned.tokens)
               = << <<"CHAR", Str(<<"a">>)>>, <<";", Str(<<";">>)>> >>
          /\ returned.errors = <<>>

(***************************************************************************)
(* C23: every call that returns a token other than EOF consumes at least   *)
(* one code point, whatever error it records; no call moves position or    *)
(* readPosition backwards; TokenizeAll returns, with no more tokens than   *)
(* the input has code points.                                              *)
(***************************************************************************)
C23_Progress ==
  /\ \A i \in 1..Len(trace) :
       LET c == trace[i] IN
       /\ c.tok.Type # "EOF" => Consumed(c.post) > Consumed(c.pre)
       /\ c.post.position >= c.pre.position
       /\ c.post.readPosition >= c.pre.readPosition
  /\ returned.called
       => Len(returned.tokens) <= RuneCount(lexer.input, 0, Len(lexer.input))

C23_Witness ==
  /\ returned.called
  /\ Len(returned.tokens) = RuneCount(lexer.input, 0, Len(lexer.input))
  /\ Len(returned.tokens) >= 3
  /\ returned.errors # <<>>

(***************************************************************************)
(* C24: a call that starts at a digit returns ILLEGAL exactly when it has  *)
(* appended at least one error, and NUMBER otherwise, in every branch of   *)
(* readNumber; `1e` and `0x` are ILLEGAL, `1e5;` and `0x1F;` start with a  *)
(* NUMBER.                                                                 *)
(***************************************************************************)
StartsAtDigit(c) == isDigit(ByteAt(c.pre.input, c.start))

FirstKind(input, kind) ==
  TokenizedFresh /\ returned.before.input = input
    => returned.tokens # <<>> /\ returned.tokens[1].Type = kind

C24_IllegalIffError ==
  /\ \A i \in TokenCalls :
       LET c == trace[i] IN
       StartsAtDigit(c)
         => /\ c.tok.Type \in {"NUMBER", "ILLEGAL"}
            /\ c.tok.Type = "ILLEGAL" <=> NewErrors(c) # <<>>
  /\ FirstKind(Str(<<"1","e">>), "ILLEGAL")
  /\ FirstKind(Str(<<"0","x">>), "ILLEGAL")
  /\ FirstKind(Str(<<"1","e","5",";">>), "NUMBER")
  /\ FirstKind(Str(<<"0","x","1","F",";">>), "NUMBER")

C24_Witness ==
  /\ \E i \in TokenCalls : StartsAtDigit(trace[i]) /\ trace[i].tok.Type = "ILLEGAL"
  /\ \E i \in TokenCalls : StartsAtDigit(trace[i]) /\ trace[i].tok.Type = "NUMBER"
  /\ Len(lexer.input) > MaxNumLen

(***************************************************************************)
(* C25: a call that starts at a double quote returns a STRING token that   *)
(* ends at the first double quote after the opener that is not the         *)
(* character escaped by a backslash, with no "unterminated string literal" *)
(* error, and leaves the cursor right after that quote; when the string    *)
(* holds just `\x` or `\x` and one hex digit, the Literal is empty and     *)
(* exactly one error, an "invalid hex escape sequence" one, is appended.   *)
(***************************************************************************)
\* The offset of the first double quote of s at or after off that is not
\* escaped by a backslash, or -1 (a backslash escapes the byte after it).
RECURSIVE StringClose(_, _)
StringClose(s, off) ==
  IF off >= Len(s) \/ s[off + 1] = 0 THEN -1
  ELSE IF s[off + 1] = Rune("\"") THEN off
  ELSE IF s[off + 1] = Rune("\\") THEN StringClose(s, off + 2)
  ELSE StringClose(s, off + 1)

InvalidHexMessages ==
  {"invalid hex escape sequence: expected hex digit after \\x",
   "invalid hex escape sequence: expected two hex digits after \\x"}

\* The string at which the call c starts holds only `\x` and at most one hex digit.
OnlyInvalidHex(c, close) ==
  /\ ByteAt(c.pre.input, c.start + 1) = Rune("\\")
  /\ ByteAt(c.pre.input, c.start + 2) = Rune("x")
  /\ \/ close = c.start + 3
     \/ close = c.start + 4 /\ IsHex(ByteAt(c.pre.input, c.start + 3))

C25_StringEndsAtQuote ==
  \A i \in TokenCalls :
    LET c == trace[i]
        ends(close) ==
          close >= 0
            => /\ c.tok.Type = "STRING"
               /\ Consumed(c.post) = close + 1
               /\ \A j \in 1..Len(NewErrors(c)) :
                    NewErrors(c)[j].Message.format # "unterminated string literal"
               /\ OnlyInvalidHex(c, close)
                    => /\ c.tok.Literal = <<>>
                       /\ Len(NewErrors(c)) = 1
                       /\ NewErrors(c)[1].Message.format \in InvalidHexMessages
    IN ByteAt(c.pre.input, c.start) = Rune("\"") => ends(StringClose(c.pre.input, c.start + 1))

(***************************************************************************)
(* C26: when the scan of an input meets a `/*` with no `*/` after it,      *)
(* TokenizeAll records exactly one error, "unterminated block comment",    *)
(* in the call that met it, and that call returns EOF; the tokens are      *)
(* those of the text before the comment.  (Inputs in which a `/*` is       *)
(* directly followed by `/` are left to C21 and C29.)                      *)
(***************************************************************************)
NoOverlap(s) ==
  \A j \in 0..(Len(s) - 3) :
    ~(s[j + 1] = Rune("/") /\ s[j + 2] = Rune("*") /\ s[j + 3] = Rune("/"))

\* The offset of the first block comment opener of s at or after off that
\* the scan meets and that has no closer, or -1.
RECURSIVE OpenComment(_, _)
OpenComment(s, off) ==
  LET block(close) == IF close < 0 THEN off ELSE OpenComment(s, close + 2)
  IN IF off >= Len(s) THEN -1
     ELSE IF ByteAt(s, off) = Rune("/") /\ ByteAt(s, off + 1) = Rune("/")
     THEN OpenComment(s, LineEnd(s, off))
     ELSE IF ByteAt(s, off) = Rune("/") /\ ByteAt(s, off + 1) = Rune("*")
     THEN block(FindClose(s, off + 2))
     ELSE OpenComment(s, off + 1)

MeetsOpenComment ==
  /\ TokenizedFresh
  /\ NoOverlap(lexer.input)
  /\ OpenComment(lexer.input, 0) >= 0

DelimiterAt(s, off) == off < Len(s) /\ ~isLetter(s[off + 1]) /\ ~isDigit(s[off + 1])

DotThenDigit(s, off) == ByteAt(s, off) = Rune(".") /\ isDigit(ByteAt(s, off + 1))

IsNumber(c, from, to) ==
  /\ c.tok.Type = "NUMBER"
  /\ c.tok.Literal = Slice(c.pre.input, from, to)
  /\ c.post.errors = c.pre.errors
  /\ Consumed(c.post) = to

ZeroFraction(c) ==
  /\ ByteAt(c.pre.input, c.start) = Rune("0")
  /\ DotThenDigit(c.pre.input, c.start + 1)
  /\ DelimiterAt(c.pre.input, DigitsEnd(c.pre.input, c.start + 2))

ZeroAlone(c) ==
  /\ ByteAt(c.pre.input, c.start) = Rune("0")
  /\ DelimiterAt(c.pre.input, c.start + 1)
  /\ ~DotThenDigit(c.pre.input, c.start + 1)

DigitsThenDot(c) ==
  /\ isDigit(ByteAt(c.pre.input, c.start))
  /\ ~(ByteAt(c.pre.input, c.start) = Rune("0") /\ isOctalDigit(ByteAt(c.pre.input, c.start + 1)))
  /\ ByteAt(c.pre.input, DigitsEnd(c.pre.input, c.start)) = Rune(".")
  /\ ~isDigit(ByteAt(c.pre.input, DigitsEnd(c.pre.input, c.start) + 1))

C27_ZeroRouting ==
  /\ \A i \in TokenCalls :
       LET c == trace[i] IN
       /\ ZeroFraction(c) => IsNumber(c, c.start, DigitsEnd(c.pre.input, c.start + 2))
       /\ ZeroAlone(c) => IsNumber(c, c.start, c.start + 1)
       /\ DigitsThenDot(c)
            => /\ IsNumber(c, c.start, DigitsEnd(c.pre.input, c.start))
               /\ i < Len(trace)
                    => /\ trace[i + 1].tok.Type = "."
                       /\ trace[i + 1].tok.Literal = <<Rune(".")>>
  /\ TokenizedFresh /\ returned.before.input = Str(<<"0",".","5",";">>)
       => /\ TypesAndLiterals(returned.tokens)
               = << <<"NUMBER", Str(<<"0",".","5">>)>>, <<";", Str(<<";">>)>> >>
          /\ returned.errors = <<>>

C27_Witness ==
  /\ \E i \in TokenCalls : ZeroFraction(trace[i])
  /\ \E i \in TokenCalls : ZeroAlone(trace[i])
  /\ \E i \in TokenCalls : DigitsThenDot(trace[i]) /\ i < Len(trace)

(***************************************************************************)
(* C28: every NextToken and TokenizeAll call leaves the errors recorded    *)
(* before it in place, unchanged, and only appends to them; HasErrors is   *)
(* true exactly when GetErrors is not empty; the errors that TokenizeAll   *)
(* returns are GetErrors at its return.                                    *)
(***************************************************************************)
IsPrefix(s, t) == Len(s) <= Len(t) /\ SubSeq(t, 1, Len(s)) = s

C28_ErrorsAppendOnly ==
  /\ [][IsPrefix(GetErrors(lexer), GetErrors(lexer'))]_vars
  /\ [](\A i \in 1..Len(trace) :
          IsPrefix(GetErrors(trace[i].pre), GetErrors(trace[i].post)))
  /\ [](HasErrors(lexer) <=> GetErrors(lexer) # <<>>)
  /\ [](returned.called => returned.errors = GetErrors(returned.after))

C28_Witness ==
  /\ returned.called
  /\ GetErrors(returned.before) # <<>>
  /\ Len(returned.errors) > Len(GetErrors(returned.before))
  /\ HasErrors(lexer)

(***************************************************************************)
(* C29: for an input that begins with `/*/` and holds no other comment     *)
(* character, TokenizeAll records no error, the first token starts after   *)
(* the second `/`, and the tokens are those of the text after it; `/*/ x`  *)
(* gives IDENT x and no error.                                             *)
(***************************************************************************)
OverlappingComment == Str(<<"/","*","/">>)

BeginsWithOverlap(s) ==
  /\ OccursAt(s, 0, OverlappingComment)
  /\ \A j \in 4..Len(s) : s[j] \notin {Rune("/"), Rune("*")}

C29_OverlappingCloser ==
  TokenizedFresh
    => /\ BeginsWithOverlap(lexer.input)
            => LET same(r) == TypesAndLiterals(returned.tokens) = TypesAndLiterals(r.tokens)
               IN /\ returned.errors = <<>>
                  /\ trace[1].tok.Type # "EOF" => trace[1].start >= Len(OverlappingComment)
                  /\ same(TokenizeAll(NewLexer(Rest(lexer.input, Len(OverlappingComment)))))
       /\ lexer.input = Str(<<"/","*","/"," ","x">>)
            => /\ TypesAndLiterals(returned.tokens) = << <<"IDENT", Str(<<"x">>)>> >>
               /\ returned.errors = <<>>

(***************************************************************************)
(* C30: two runs of the program that merge the same Config into the        *)
(* default tables and scan the same input with TokenizeAll get the same    *)
(* tokens and the same errors, whatever order MergeWithDefaults visits the *)
(* maps in.                                                                *)
(***************************************************************************)
SameRun ==
  /\ previous.ran
  /\ MergedAndTokenized
  /\ configFile = previous.file
  /\ lexer.input = previous.input

C30_Deterministic ==
  SameRun => returned.tokens = previous.tokens /\ returned.errors = previous.errors

====
